---- MODULE Spec2Model ----
(***************************************************************************)
(* Facial Recognition System: the gallery store (database_manager.py), the *)
(* two matching engines (face_recognition_engine.py, "A", embedding        *)
(* distance; face_recognition_engine_opencv.py, "B", LBPH classifier), the *)
(* frame source (camera_handler.py) and the application with its           *)
(* enrollment session and frame loop (main.py).                            *)
(*                                                                         *)
(* Time is counted in quarter seconds.  A face is abstracted to a small    *)
(* integer payload: the embedding of engine A, the 200x200 patch of        *)
(* engine B.  A frame is the sequence of the payloads of the faces the     *)
(* detector finds in it, in detection order.                               *)
(***************************************************************************)
EXTENDS Integers, Sequences, FiniteSets, TLC

\* ------------------------------------------------------------------ bounds
MaxFaces == 2        \* faces in one frame
MaxRecords == 3      \* rows ever held by face_encodings at one time
MaxPersonId == 3     \* values handed out by persons' AUTOINCREMENT
ClockSlack == 0      \* how long the clock runs on after a session's last capture
MaxThreads == 2      \* camera_loop threads ever started
TargetSamples == 2   \* main.py sets target_samples = 10; scaled down
DistUnit == 7        \* engine A: distance, in tenths, between neighbouring payloads
ScoreUnit == 90     \* engine B: LBPH score between neighbouring payloads
MaxEnrolled == 2     \* rows the engine holds when it is called directly

\* -------------------------------------------------------- program constants
CaptureDelay == 2    \* capture_delay = 0.5 s, in quarter seconds
ToleranceA == 6      \* tolerance = 0.6, in tenths
ToleranceB == 80     \* FaceRecognitionEngine(self.db_manager, tolerance=80.0)

\* an identity is the text of the name entry: a sequence of characters
Alice == <<"a">>
Bob == <<"b">>
Names == {Alice, Bob}
\* what the user can type into the name entry
EntryTexts == Names \cup {<<>>, <<"_">>, <<"a", "!">>}
AlnumChars == {"a", "b", "1"}
\* the name recognize_faces gives a face it does not accept
Unknown == <<"Unknown">>
Payloads == {1, 2}
Strategies == {"A", "B"}

Abs(x) == IF x < 0 THEN 0 - x ELSE x
Range(f) == {f[x] : x \in DOMAIN f}
Max(a, b) == IF a >= b THEN a ELSE b

RECURSIVE SeqsUpTo(_, _)
SeqsUpTo(S, n) ==
  IF n = 0 THEN {<<>>}
  ELSE LET shorter == SeqsUpTo(S, n - 1)
       IN shorter \cup {Append(s, x) : s \in {q \in shorter : Len(q) = n - 1}, x \in S}

\* what the camera can deliver: the faces in front of it
Frames == SeqsUpTo(Payloads, MaxFaces)

\* ----------------------------------------------------------- Gallery Store
\* db = [persons: set of rows [id, name], face_encodings: sequence of rows
\* [person_id, encoding] in rowid order, seq: the last AUTOINCREMENT value].
\* The connection is opened without PRAGMA foreign_keys = ON, so SQLite does
\* not enforce the FOREIGN KEY ... ON DELETE CASCADE clause of the schema.
\* registered_date grows with the id, so "ORDER BY registered_date DESC" is
\* the order of decreasing id.

EmptyDb == [persons |-> {}, face_encodings |-> <<>>, seq |-> 0]

PersonRow(d, name) == CHOOSE p \in d.persons : p.name = name
PersonIds(d) == {p.id : p \in d.persons}

db_person_exists(d, name) == Cardinality({p \in d.persons : p.name = name}) > 0

db_get_person_count(d) == Cardinality(d.persons)

\* add_person over a table whose name column is not UNIQUE: always a new row
db_add_person_AlwaysInsert(d, name) ==
  [db |-> [d EXCEPT !.persons = @ \cup {[id |-> d.seq + 1, name |-> name]},
                    !.seq = @ + 1],
   id |-> d.seq + 1]

\* add_person over a table whose id is not AUTOINCREMENT: a new row gets the
\* largest id in the table plus one, so the id of a deleted row is used again
db_add_person_ReusingIds(d, name) ==
  LET id == IF d.persons = {} THEN 1
            ELSE (CHOOSE m \in PersonIds(d) : \A o \in PersonIds(d) : o <= m) + 1
  IN IF ~db_person_exists(d, name)
     THEN [db |-> [d EXCEPT !.persons = @ \cup {[id |-> id, name |-> name]},
                            !.seq = @ + 1],
           id |-> id]
     ELSE [db |-> d, id |-> PersonRow(d, name).id]

\* INSERT; on the UNIQUE(name) IntegrityError, SELECT the existing id
db_add_person(d, name) ==
  IF ~db_person_exists(d, name)
  THEN [db |-> [d EXCEPT !.persons = @ \cup {[id |-> d.seq + 1, name |-> name]},
                         !.seq = @ + 1],
        id |-> d.seq + 1]
  ELSE [db |-> d, id |-> PersonRow(d, name).id]

db_add_face_encoding(d, person_id, encoding) ==
  [d EXCEPT !.face_encodings =
              Append(@, [person_id |-> person_id, encoding |-> encoding])]

\* the rows of face_encodings JOIN persons, as (name, encoding), in rowid order
db_get_all_encodings(d) ==
  LET F[i \in 0..Len(d.face_encodings)] ==
        IF i = 0 THEN <<>>
        ELSE LET fe == d.face_encodings[i]
                 owner == {p \in d.persons : p.id = fe.person_id}
             IN IF owner = {} THEN F[i - 1]
                ELSE Append(F[i - 1], <<(CHOOSE p \in owner : TRUE).name, fe.encoding>>)
  IN F[Len(d.face_encodings)]

db_get_person_encodings(d, name) ==
  LET all == db_get_all_encodings(d)
      F[i \in 0..Len(all)] ==
        IF i = 0 THEN <<>>
        ELSE IF all[i][1] = name THEN Append(F[i - 1], all[i][2]) ELSE F[i - 1]
  IN F[Len(all)]

\* DELETE FROM persons WHERE name = ?; rowcount > 0
db_delete_person(d, name) ==
  [db |-> [d EXCEPT !.persons = {p \in @ : p.name # name}],
   ok |-> db_person_exists(d, name)]

\* (name, COUNT(fe.id)) per person, newest person first
RECURSIVE PersonsDesc(_, _)
PersonsDesc(d, ps) ==
  IF ps = {} THEN <<>>
  ELSE LET p == CHOOSE q \in ps : \A r \in ps : r.id <= q.id
       IN <<<<p.name, Len(db_get_person_encodings(d, p.name))>>>>
            \o PersonsDesc(d, ps \ {p})

db_get_all_persons(d) == PersonsDesc(d, d.persons)

\* DELETE FROM face_encodings; DELETE FROM persons (sqlite_sequence is kept)
db_clear_all_data(d) == [d EXCEPT !.face_encodings = <<>>, !.persons = {}]

\* ------------------------------------------------------------- the engines
\* eng holds the cache of both engine classes; the application constructs one
\* of them (strategy) and the other's fields keep their initial value.
\* recognizer is what LBPH was last trained with: (patch, label) in order.
\* tolerance is in tenths for engine A and in LBPH score for engine B.

\* the tolerance the engine is constructed with when the application runs it
AppTolerance(s) == IF s = "A" THEN ToleranceA ELSE ToleranceB

NewEngine(tolerance) ==
  [tolerance |-> tolerance, known_names |-> <<>>, known_encodings |-> <<>>,
   label_to_name |-> <<>>, name_to_label |-> <<>>,
   trained |-> FALSE, recognizer |-> <<>>]

\* one region per detected face, in detection order
detect_faces(frame) == [i \in 1..Len(frame) |-> i]

\* face_recognition.face_encodings: one embedding per region
encode_faces(frame, face_locations) ==
  [i \in 1..Len(face_locations) |-> frame[face_locations[i]]]

\* the labels 0..n-1 given to the persons in the order of get_all_persons
LabelMap(persons) == [l \in 0..(Len(persons) - 1) |-> persons[l + 1][1]]
NameMap(persons) ==
  [n \in {persons[i][1] : i \in 1..Len(persons)} |->
     CHOOSE l \in 0..(Len(persons) - 1) : persons[l + 1][1] = n]

\* the (patch, label) training pairs of persons[1..k]
RECURSIVE TrainingData(_, _, _)
TrainingData(d, persons, k) ==
  IF k = 0 THEN <<>>
  ELSE LET encs == db_get_person_encodings(d, persons[k][1])
       IN TrainingData(d, persons, k - 1)
            \o [i \in 1..Len(encs) |-> <<encs[i], k - 1>>]

A_load_known_faces(e, d) ==
  LET encodings_data == db_get_all_encodings(d)
  IN [eng |-> [e EXCEPT
                 !.known_names = [i \in 1..Len(encodings_data) |-> encodings_data[i][1]],
                 !.known_encodings = [i \in 1..Len(encodings_data) |-> encodings_data[i][2]]],
      ret |-> Len(encodings_data)]

B_load_known_faces(e, d) ==
  LET persons == db_get_all_persons(d)
      faces == TrainingData(d, persons, Len(persons))
  IN IF Len(persons) = 0
     THEN [eng |-> [e EXCEPT !.trained = FALSE], ret |-> 0]
     ELSE IF Len(faces) > 0
          THEN [eng |-> [e EXCEPT !.label_to_name = LabelMap(persons),
                                  !.name_to_label = NameMap(persons),
                                  !.recognizer = faces,
                                  !.trained = TRUE],
                ret |-> Len(faces)]
          ELSE [eng |-> [e EXCEPT !.label_to_name = LabelMap(persons),
                                  !.name_to_label = NameMap(persons),
                                  !.trained = FALSE],
                ret |-> 0]

load_known_faces(s, e, d) ==
  IF s = "A" THEN A_load_known_faces(e, d) ELSE B_load_known_faces(e, d)

\* face_recognition.face_distance, in tenths
face_distance(a, b) == DistUnit * Abs(a - b)

\* the index of the largest element in place of the smallest
ArgMin_Farthest(ds) == CHOOSE i \in 1..Len(ds) : \A j \in 1..Len(ds) : ds[i] >= ds[j]

\* np.argmin: the first index of the minimum
ArgMin(ds) == CHOOSE i \in 1..Len(ds) :
                /\ \A j \in 1..Len(ds) : ds[i] <= ds[j]
                /\ \A j \in 1..(i - 1) : ds[j] > ds[i]

\* the confidence of engine A without its max(0, ...)
A_confidence_Unclamped(distance) == (10 - distance) * 10

\* "max(0, (1 - face_distances[best_match_index]) * 100)", distance in tenths
A_confidence(distance) == Max(0, (10 - distance) * 10)

\* "max(0, 100 - confidence)"
B_confidence(confidence) == Max(0, 100 - confidence)

\* compare_faces with the comparison strict: a distance equal to the tolerance
\* is no match
WithinTolerance_Strict(distance, tolerance) == distance < tolerance

\* face_recognition.compare_faces: "face_distance(...) <= tolerance"
WithinTolerance(distance, tolerance) == distance <= tolerance

A_match(e, face_encoding) ==
  LET matches == [i \in 1..Len(e.known_encodings) |->
                    WithinTolerance(face_distance(e.known_encodings[i], face_encoding),
                                    e.tolerance)]
      face_distances == [i \in 1..Len(e.known_encodings) |->
                           face_distance(e.known_encodings[i], face_encoding)]
      best_match_index == ArgMin(face_distances)
  IN IF Len(face_distances) > 0 /\ matches[best_match_index]
     THEN [name |-> e.known_names[best_match_index],
           confidence |-> A_confidence(face_distances[best_match_index])]
     ELSE [name |-> Unknown, confidence |-> 0]

A_recognize_faces(e, frame) ==
  IF Len(e.known_encodings) = 0 THEN <<>>
  ELSE LET face_locations == detect_faces(frame)
           face_encodings == encode_faces(frame, face_locations)
       IN [i \in 1..Len(face_locations) |->
             [location |-> face_locations[i]] @@ A_match(e, face_encodings[i])]

\* LBPH predict: the label of the nearest training patch (the first one on a
\* tie) and its score; (-1, beyond every score) for a model without patches
predict(recognizer, patch) ==
  IF Len(recognizer) = 0
  THEN [label |-> 0 - 1, confidence |-> ScoreUnit * 1000]
  ELSE LET scores == [i \in 1..Len(recognizer) |-> ScoreUnit * Abs(recognizer[i][1] - patch)]
           best == ArgMin(scores)
       IN [label |-> recognizer[best][2], confidence |-> scores[best]]

\* the test of engine B with the comparison loose: a score equal to the
\* tolerance is accepted
BelowTolerance_Loose(confidence, tolerance) == confidence <= tolerance

\* "confidence < self.tolerance"
BelowTolerance(confidence, tolerance) == confidence < tolerance

B_match(e, face_resized) ==
  LET p == predict(e.recognizer, face_resized)
  IN IF BelowTolerance(p.confidence, e.tolerance) /\ p.label \in DOMAIN e.label_to_name
     THEN [name |-> e.label_to_name[p.label],
           confidence |-> B_confidence(p.confidence)]
     ELSE [name |-> Unknown, confidence |-> 0]

\* recognize_faces of engine B without the test of self.trained
B_recognize_faces_Untested(e, frame) ==
  LET face_locations == detect_faces(frame)
  IN [i \in 1..Len(face_locations) |->
        [location |-> face_locations[i]] @@ B_match(e, frame[face_locations[i]])]

B_recognize_faces(e, frame) ==
  IF ~e.trained THEN <<>>
  ELSE LET face_locations == detect_faces(frame)
       IN [i \in 1..Len(face_locations) |->
             [location |-> face_locations[i]] @@ B_match(e, frame[face_locations[i]])]

recognize_faces(s, e, frame) ==
  IF s = "A" THEN A_recognize_faces(e, frame) ELSE B_recognize_faces(e, frame)

\* the messages register_face returns with False
NoFaceDetected == "No face detected"
MultipleFacesDetected == "Multiple faces detected - only one person should be visible"

\* the test for several faces off by one: two faces pass
TooManyFaces_OffByOne(face_locations) == Len(face_locations) > 2

\* "if len(face_locations) > 1"
TooManyFaces(face_locations) == Len(face_locations) > 1

\* register_face of either engine: [eng, db, success, msg]
register_face(s, e, d, frame, name) ==
  LET face_locations == detect_faces(frame)
      added == db_add_person(d, name)
      stored == db_add_face_encoding(added.db, added.id, frame[face_locations[1]])
  IN IF Len(face_locations) = 0
     THEN [eng |-> e, db |-> d, success |-> FALSE, msg |-> NoFaceDetected]
     ELSE IF TooManyFaces(face_locations)
          THEN [eng |-> e, db |-> d, success |-> FALSE, msg |-> MultipleFacesDetected]
          ELSE [eng |-> load_known_faces(s, e, stored).eng, db |-> stored,
                success |-> TRUE, msg |-> "Face registered successfully"]

\* delete_person without its reload
engine_delete_person_NoReload(s, e, d, name) ==
  [eng |-> e, db |-> db_delete_person(d, name).db, success |-> db_delete_person(d, name).ok]

\* delete_person of either engine: [eng, db, success]
engine_delete_person(s, e, d, name) ==
  LET removed == db_delete_person(d, name)
  IN IF removed.ok
     THEN [eng |-> load_known_faces(s, e, removed.db).eng, db |-> removed.db, success |-> TRUE]
     ELSE [eng |-> e, db |-> removed.db, success |-> FALSE]

clear_all_faces(s, e, d) ==
  [eng |-> load_known_faces(s, e, db_clear_all_data(d)).eng, db |-> db_clear_all_data(d)]

A_get_statistics(e, d) ==
  [total_persons |-> db_get_person_count(d), total_encodings |-> Len(e.known_encodings)]

B_get_statistics(e, d) ==
  [total_persons |-> db_get_person_count(d),
   total_encodings |-> Cardinality(DOMAIN e.label_to_name)]

get_statistics(s, e, d) ==
  IF s = "A" THEN A_get_statistics(e, d) ELSE B_get_statistics(e, d)

\* ------------------------------------------------------------ Frame Source
NewCamera == [is_active |-> FALSE, capture |-> "none"]

\* start without its test of is_active: the device is opened again
camera_start_Reopening(c, opened) ==
  IF ~opened THEN [camera |-> [c EXCEPT !.capture = "closed"], ok |-> FALSE]
  ELSE [camera |-> [is_active |-> TRUE, capture |-> "open"], ok |-> TRUE]

\* opened: whether cv2.VideoCapture(...).isOpened()
camera_start(c, opened) ==
  IF c.is_active THEN [camera |-> c, ok |-> TRUE]
  ELSE IF ~opened THEN [camera |-> [c EXCEPT !.capture = "closed"], ok |-> FALSE]
  ELSE [camera |-> [is_active |-> TRUE, capture |-> "open"], ok |-> TRUE]

camera_stop(c) == [is_active |-> FALSE, capture |-> "none"]

\* ret: what capture.read() reports
camera_read_frame(c, ret, frame) ==
  IF ~c.is_active \/ c.capture = "none" THEN [success |-> FALSE, frame |-> <<>>]
  ELSE IF ~ret THEN [success |-> FALSE, frame |-> <<>>]
  ELSE [success |-> TRUE, frame |-> frame]

\* ---------------------------------------------------------- the name entry
RECURSIVE LStrip(_)
LStrip(t) == IF t # <<>> /\ Head(t) = " " THEN LStrip(Tail(t)) ELSE t
RECURSIVE RStrip(_)
RStrip(t) == IF t # <<>> /\ t[Len(t)] = " " THEN RStrip(SubSeq(t, 1, Len(t) - 1)) ELSE t
\* str.strip()
Strip(t) == RStrip(LStrip(t))
\* str.replace(c, "")
Remove(t, c) == SelectSeq(t, LAMBDA x : x # c)
\* str.isalnum(): non-empty and every character alphanumeric
IsAlnum(t) == t # <<>> /\ \A i \in 1..Len(t) : t[i] \in AlnumChars
\* the checks of start_registration without the one on the characters
NameAccepted_NonEmpty(name) == name # <<>>

\* the two checks of start_registration
NameAccepted(name) == name # <<>> /\ IsAlnum(Remove(Remove(name, "_"), "-"))

\* ---------------------------------------------------------------- the state
VARIABLES
  strategy,            \* which engine class the application constructed
  db,                  \* DatabaseManager: the SQLite tables
  eng,                 \* FaceRecognitionEngine: the gallery cache
  camera,              \* CameraHandler
  camera_active, running,
  registration_mode, registration_name, registration_count, last_capture_time,
  register_btn,        \* state of the "Register New Face" button
  name_entry,          \* [state, text] of the name entry
  after_queue,         \* callbacks scheduled with root.after(0, ...)
  clock,               \* time.time()
  thr,                 \* the camera_loop threads: where each is, and its locals
  ui,                  \* the Tk main thread: where it is in a handler
  event,               \* the operation that ran last, and what it returned
  session_base,        \* history: <<n>>, the records the session's identity had
                       \* when the session began from Idle; <<>> once a delete,
                       \* a clear or another begin has come between
  deleted              \* history: the names delete_person has returned True for and
                       \* register_face has not been called for since

vars == <<strategy, db, eng, camera, camera_active, running, registration_mode,
          registration_name, registration_count, last_capture_time, register_btn,
          name_entry, after_queue, clock, thr, ui, event, session_base, deleted>>

session == <<registration_mode, registration_name, registration_count, last_capture_time>>
widgets == <<register_btn, name_entry, after_queue>>
gallery == <<db, eng>>

Threads == 1..MaxThreads
\* a load_known_faces in progress: where it is, what it read from the store
\* (encodings_data or persons), the index of its loop, the faces collected
NoLoad == [pc |-> "done", data |-> <<>>, k |-> 0, faces |-> <<>>]
StartLoad == [NoLoad EXCEPT !.pc = "read"]

\* the locals of a camera_loop thread: the frame read, current_time, the name
\* and the person_id register_face works with, the load it runs, and the
\* locals of recognize_faces: the index of the face, best (best_match_index
\* of engine A, 0 for none; label of engine B), hit (matches[best_match_index]
\* of engine A; confidence < tolerance of engine B), the names found so far.
\* banned is history: the names that were in deleted when recognize_faces
\* was called and that register_face has not been called for since.
NoLocals ==
  [frame |-> <<>>, now |-> 0, name |-> <<>>, person_id |-> 0, ld |-> NoLoad,
   i |-> 0, best |-> 0, hit |-> FALSE, results |-> <<>>, banned |-> {}]
NewThread == [pc |-> "unborn"] @@ NoLocals
\* the Tk main thread between two handlers
UiIdle == [pc |-> "idle", name |-> <<>>, ld |-> NoLoad]

\* time.time() is far from 0: the first frame of a session is never debounced
StartClock == CaptureDelay
\* the clock stops here: long enough for the captures of one whole session
MaxClock == TargetSamples * CaptureDelay + ClockSlack

\* __init__ of the application, what it sets besides the store and the engine
Constructed ==
  /\ camera = NewCamera
  /\ camera_active = FALSE
  /\ running = TRUE
  /\ registration_mode = FALSE
  /\ registration_name = <<>>
  /\ registration_count = 0
  /\ last_capture_time = 0
  /\ register_btn = "disabled"
  /\ name_entry = [state |-> "normal", text |-> <<>>]
  /\ after_queue = <<>>
  /\ clock = StartClock
  /\ thr = [t \in Threads |-> NewThread]
  /\ event = [op |-> "init"]
  /\ session_base = <<>>
  /\ deleted = {}
  /\ ui = UiIdle

\* __init__ of the application, over the store it finds
InitOver(store) ==
  /\ strategy \in Strategies
  /\ db = store
  /\ eng = load_known_faces(strategy, NewEngine(AppTolerance(strategy)), store).eng
  /\ Constructed

\* the first run: the store is created empty
Init == InitOver(EmptyDb)


\* the model's caps: a row can be stored under name without passing them
HasRoom(d, name) ==
  /\ Len(d.face_encodings) < MaxRecords
  /\ db_person_exists(d, name) \/ d.seq < MaxPersonId

\* ------------------------------------------- the handlers of the UI thread
\* toggle_camera, camera stopped: start it and its frame loop
\* opened: whether the device opens
toggle_camera_start(opened) ==
  /\ ui.pc = "idle" /\ running /\ ~camera_active
  /\ \E t \in Threads :
       LET started == camera_start(camera, opened) IN
       /\ thr[t].pc = "unborn" /\ \A u \in 1..(t - 1) : thr[u].pc # "unborn"
       /\ camera' = started.camera
       /\ IF started.ok
          THEN /\ camera_active' = TRUE
               /\ register_btn' = "normal"
               /\ thr' = [thr EXCEPT ![t].pc = "loop"]
          ELSE UNCHANGED <<camera_active, register_btn, thr>>
       /\ event' = [op |-> "camera_start", opened |-> opened, ok |-> started.ok]
  /\ UNCHANGED <<session_base, deleted, ui, strategy, gallery, running, session, name_entry, after_queue, clock>>

ToggleCameraStart == \E opened \in BOOLEAN : toggle_camera_start(opened)

\* toggle_camera, camera running: stop it
ToggleCameraStop ==
  /\ ui.pc = "idle" /\ running /\ camera_active
  /\ camera_active' = FALSE
  /\ camera' = camera_stop(camera)
  /\ register_btn' = "disabled"
  /\ event' = [op |-> "camera_stop"]
  /\ UNCHANGED <<session_base, deleted, ui, strategy, gallery, running, session, name_entry, after_queue, clock, thr>>

toggle_camera == ToggleCameraStart \/ ToggleCameraStop

\* the user edits the name entry
type_name(text) ==
  /\ ui.pc = "idle" /\ running /\ name_entry.state = "normal"
  /\ text # name_entry.text
  /\ name_entry' = [name_entry EXCEPT !.text = text]
  /\ event' = [op |-> "other"]
  /\ UNCHANGED <<session_base, deleted, ui, strategy, gallery, camera, camera_active, running, session,
                 register_btn, after_queue, clock, thr>>

TypeName == \E text \in EntryTexts : type_name(text)

\* start_registration: a click on the enabled register button
\* add_more: the answer to the "Add more samples?" prompt
start_registration ==
  /\ ui.pc = "idle" /\ running /\ register_btn = "normal"
  /\ \E add_more \in BOOLEAN :
       LET name == Strip(name_entry.text)
           accepted == /\ NameAccepted(name)
                       /\ db_person_exists(db, name) => add_more
       IN \* the prompt is shown for a registered name only
          /\ db_person_exists(db, name) \/ add_more
          /\ IF accepted
             THEN /\ registration_name' = name
                  /\ registration_count' = 0
                  /\ registration_mode' = TRUE
                  /\ last_capture_time' = 0
                  /\ register_btn' = "disabled"
                  /\ name_entry' = [name_entry EXCEPT !.state = "disabled"]
                  /\ session_base' = IF registration_mode THEN <<>>
                                     ELSE <<Len(db_get_person_encodings(db, name))>>
             ELSE UNCHANGED <<session, register_btn, name_entry, session_base>>
          /\ event' = [op |-> "start_registration", accepted |-> accepted]
  /\ UNCHANGED <<strategy, gallery, camera, camera_active, running, after_queue, clock, thr,
                 ui, deleted>>

\* the callbacks complete_registration scheduled, run by the Tk event loop:
\* register_btn NORMAL, name_entry NORMAL, name_entry.delete(0, END)
RunAfter ==
  /\ ui.pc = "idle" /\ running /\ after_queue # <<>>
  /\ after_queue' = Tail(after_queue)
  /\ register_btn' = "normal"
  /\ name_entry' = [state |-> "normal", text |-> <<>>]
  /\ event' = [op |-> "other"]
  /\ UNCHANGED <<session_base, deleted, ui, strategy, gallery, camera, camera_active, running, session,
                 clock, thr>>

\* confirm_delete, answered yes.  The dialog lists the persons of the moment
\* it was opened, so the name may have left the store since.
confirm_delete ==
  /\ ui.pc = "idle" /\ running
  /\ \E name \in Names :
       LET r == engine_delete_person(strategy, eng, db, name) IN
       /\ eng' = r.eng
       /\ db' = r.db
       /\ event' = [op |-> "delete_person", name |-> name, success |-> r.success]
       /\ deleted' = IF r.success THEN deleted \cup {name} ELSE deleted
  /\ session_base' = <<>>
  /\ UNCHANGED <<strategy, camera, camera_active, running, session,
                 register_btn, name_entry, after_queue, clock, thr, ui>>

\* clear_all, answered yes
clear_all ==
  /\ ui.pc = "idle" /\ running
  /\ LET r == clear_all_faces(strategy, eng, db) IN
     /\ eng' = r.eng
     /\ db' = r.db
  /\ event' = [op |-> "clear_all"]
  /\ session_base' = <<>>
  /\ UNCHANGED <<strategy, camera, camera_active, running, session,
                 widgets, clock, thr, ui, deleted>>

on_closing ==
  /\ ui.pc = "idle" /\ running
  /\ running' = FALSE
  /\ camera_active' = FALSE
  /\ camera' = camera_stop(camera)
  /\ event' = [op |-> "camera_stop"]
  /\ UNCHANGED <<session_base, deleted, ui, strategy, gallery, session, widgets, clock, thr>>

\* --------------------------------------------------------- the frame loop
\* the loop condition of camera_loop
LoopCondition == camera_active /\ running

\* "if current_time - self.last_capture_time >= self.capture_delay"
DebounceElapsed(current_time, last) == current_time - last >= CaptureDelay

\* "if self.registration_count < self.target_samples"
BelowTarget(count) == count < TargetSamples

\* TargetReached with the comparison off by one: a count equal to the target
\* does not complete the session
TargetReached_Late(count) == count > TargetSamples

\* "if self.registration_count >= self.target_samples"
TargetReached(count) == count >= TargetSamples

\* the widget callbacks complete_registration schedules
CompletionCallbacks == <<"complete">>

\* a frame shown with its faces marked and not captured, with the branch
\* stamping the session as if it had been
NoCapture_Stamping(faces) ==
  /\ event' = [op |-> "registration_frame", faces |-> faces, captured |-> FALSE]
  /\ last_capture_time' = clock
  /\ UNCHANGED <<gallery, registration_mode, registration_name, registration_count,
                 after_queue, deleted>>

\* process_registration_frame when no sample is taken: the frame is drawn on
\* and displayed, nothing else
NoCapture(faces) ==
  /\ event' = [op |-> "registration_frame", faces |-> faces, captured |-> FALSE]
  /\ UNCHANGED <<gallery, session, after_queue, deleted>>

\* process_registration_frame on a frame read at time clock
process_registration_frame(frame) ==
  LET face_locations == detect_faces(frame)
      current_time == clock
      r == register_face(strategy, eng, db, frame, registration_name)
  IN IF /\ Len(face_locations) = 1
        /\ DebounceElapsed(current_time, last_capture_time)
        /\ BelowTarget(registration_count)
     THEN /\ HasRoom(db, registration_name)
          /\ deleted' = deleted \ {registration_name}
          /\ eng' = r.eng
          /\ db' = r.db
          /\ IF r.success
             THEN /\ registration_count' = registration_count + 1
                  /\ last_capture_time' = current_time
                  /\ IF TargetReached(registration_count + 1)
                     THEN \* complete_registration
                          /\ registration_mode' = FALSE
                          /\ after_queue' = after_queue \o CompletionCallbacks
                     ELSE UNCHANGED <<registration_mode, after_queue>>
             ELSE UNCHANGED <<registration_count, last_capture_time,
                              registration_mode, after_queue>>
          /\ event' = [op |-> "registration_frame", faces |-> 1, captured |-> r.success]
          /\ UNCHANGED registration_name
     ELSE NoCapture(Len(face_locations))

process_recognition_frame(frame) ==
  /\ event' = [op |-> "recognize_faces"]
  /\ UNCHANGED <<gallery, session, after_queue, deleted>>

\* where a failed read would leave the thread if "continue" were "break"
Continue_Break == "exited"

\* "if not success: time.sleep(0.01); continue": back to the loop's test
Continue == "loop"

\* one iteration of camera_loop in thread t
CameraLoopIteration(t) ==
  /\ thr[t].pc = "loop" /\ LoopCondition
  /\ \E ret \in BOOLEAN, frame \in Frames :
       LET read == camera_read_frame(camera, ret, frame) IN
       /\ ret \/ frame = <<>>
       /\ IF ~read.success
          THEN /\ event' = [op |-> "read_frame", success |-> FALSE, frame |-> read.frame]
               /\ thr' = [thr EXCEPT ![t].pc = Continue]
               /\ UNCHANGED <<gallery, session, after_queue, deleted>>
          ELSE /\ IF registration_mode
                  THEN process_registration_frame(read.frame)
                  ELSE process_recognition_frame(read.frame)
               /\ UNCHANGED thr
  /\ UNCHANGED <<session_base, ui, strategy, camera, camera_active, running, register_btn,
                 name_entry, clock>>

\* camera_loop finds its condition false and returns
CameraLoopExit(t) ==
  /\ thr[t].pc = "loop" /\ ~LoopCondition
  /\ thr' = [thr EXCEPT ![t].pc = "exited"]
  /\ event' = [op |-> "other"]
  /\ UNCHANGED <<session_base, deleted, ui, strategy, gallery, camera, camera_active, running, session,
                 widgets, clock>>

camera_loop == \E t \in Threads : CameraLoopIteration(t) \/ CameraLoopExit(t)

\* time passes
Tick ==
  /\ clock < MaxClock
  /\ clock' = clock + 1
  /\ event' = [op |-> "other"]
  /\ UNCHANGED <<session_base, deleted, ui, strategy, gallery, camera, camera_active, running, session,
                 widgets, thr>>

\* every handler and every iteration of the frame loop runs to its end
Next ==
  \/ ToggleCameraStart
  \/ ToggleCameraStop
  \/ TypeName
  \/ start_registration
  \/ RunAfter
  \/ confirm_delete
  \/ clear_all
  \/ on_closing
  \/ \E t \in Threads : CameraLoopIteration(t)
  \/ \E t \in Threads : CameraLoopExit(t)
  \/ Tick

Spec == Init /\ [][Next]_vars

\* ================================================= the threads, statement-wise
\* The handlers above run each call into the engine to its end.  The program
\* takes no lock: camera_loop runs in threads of its own, the handlers in the
\* Tk main thread, and both call into the same engine and the same store.
\* Below, a call into the engine is a sequence of steps, one per access to
\* the cache or the store, and the steps of different threads interleave.

\* What the threads are given: the earlier run enrolled Alice, this run's
\* user enrolls Bob and deletes Alice, the device opens and delivers, and a
\* frame shows one face.
TypedInThreads == {Bob}
DeletedInThreads == {Alice}
FramesInThreads == {frame \in Frames : Len(frame) = 1}

\* load_known_faces of engine A, one step: [ld, eng]
A_LoadStep(ld, e, d) ==
  CASE ld.pc = "read" ->         \* encodings_data = get_all_encodings()
         [ld |-> [ld EXCEPT !.pc = "names", !.data = db_get_all_encodings(d)],
          eng |-> e]
    [] ld.pc = "names" ->        \* self.known_names = []
         [ld |-> [ld EXCEPT !.pc = "encodings"],
          eng |-> [e EXCEPT !.known_names = <<>>]]
    [] ld.pc = "encodings" ->    \* self.known_encodings = []
         [ld |-> IF ld.data = <<>> THEN NoLoad ELSE [ld EXCEPT !.pc = "append", !.k = 1],
          eng |-> [e EXCEPT !.known_encodings = <<>>]]
    [] ld.pc = "append" ->       \* one turn of the for loop
         [ld |-> IF ld.k = Len(ld.data) THEN NoLoad ELSE [ld EXCEPT !.k = @ + 1],
          eng |-> [e EXCEPT !.known_names = Append(@, ld.data[ld.k][1]),
                            !.known_encodings = Append(@, ld.data[ld.k][2])]]

\* load_known_faces of engine B, one step: [ld, eng]
B_LoadStep(ld, e, d) ==
  CASE ld.pc = "read" ->         \* persons = get_all_persons(); the early return
         LET persons == db_get_all_persons(d)
         IN IF Len(persons) = 0
            THEN [ld |-> NoLoad, eng |-> [e EXCEPT !.trained = FALSE]]
            ELSE [ld |-> [ld EXCEPT !.pc = "clear", !.data = persons], eng |-> e]
    [] ld.pc = "clear" ->        \* label_to_name.clear(); name_to_label.clear()
         [ld |-> [ld EXCEPT !.pc = "person", !.k = 1],
          eng |-> [e EXCEPT !.label_to_name = <<>>, !.name_to_label = <<>>]]
    [] ld.pc = "person" ->       \* one turn of the for loop, label_id = k - 1
         LET name == ld.data[ld.k][1]
             person_encodings == db_get_person_encodings(d, name)
         IN [ld |-> [ld EXCEPT !.pc = IF ld.k = Len(ld.data) THEN "train" ELSE "person",
                               !.k = @ + 1,
                               !.faces = @ \o [i \in 1..Len(person_encodings) |->
                                                 <<person_encodings[i], ld.k - 1>>]],
             eng |-> [e EXCEPT !.label_to_name = ((ld.k - 1) :> name) @@ @,
                               !.name_to_label = (name :> (ld.k - 1)) @@ @]]
    [] ld.pc = "train" ->        \* recognizer.train(faces, labels), or trained = False
         IF Len(ld.faces) > 0
         THEN [ld |-> [ld EXCEPT !.pc = "trained"], eng |-> [e EXCEPT !.recognizer = ld.faces]]
         ELSE [ld |-> NoLoad, eng |-> [e EXCEPT !.trained = FALSE]]
    [] ld.pc = "trained" ->      \* self.trained = True
         [ld |-> NoLoad, eng |-> [e EXCEPT !.trained = TRUE]]

LoadStep(s, ld, e, d) == IF s = "A" THEN A_LoadStep(ld, e, d) ELSE B_LoadStep(ld, e, d)

\* a load that has begun to rewrite the cache and has not finished
LoadMidway(ld) == ld.pc \in {"encodings", "append", "person", "train", "trained"}

\* ---------------------------------------------------------- the UI thread
\* confirm_delete: db_manager.delete_person, then the reload if a row went
DeleteBegin ==
  /\ ui.pc = "idle" /\ running
  /\ \E name \in DeletedInThreads :
       LET r == db_delete_person(db, name) IN
       /\ db' = r.db
       /\ IF r.ok
          THEN /\ ui' = [pc |-> "delete_person", name |-> name, ld |-> StartLoad]
               /\ event' = [op |-> "other"]
               /\ UNCHANGED deleted
          ELSE /\ event' = [op |-> "delete_person", name |-> name, success |-> FALSE]
               /\ UNCHANGED <<ui, deleted>>
  /\ session_base' = <<>>
  /\ UNCHANGED <<strategy, eng, camera, camera_active, running, session, widgets, clock, thr>>

\* clear_all: db_manager.clear_all_data, then the reload
ClearBegin ==
  /\ ui.pc = "idle" /\ running
  /\ db' = db_clear_all_data(db)
  /\ ui' = [pc |-> "clear_all_faces", name |-> <<>>, ld |-> StartLoad]
  /\ event' = [op |-> "other"]
  /\ session_base' = <<>>
  /\ UNCHANGED <<strategy, eng, camera, camera_active, running, session, widgets, clock,
                 thr, deleted>>

\* one step of the reload of delete_person or clear_all_faces; the handler
\* returns with the last one
UiLoadStep ==
  /\ ui.pc \in {"delete_person", "clear_all_faces"}
  /\ LET r == LoadStep(strategy, ui.ld, eng, db) IN
     /\ eng' = r.eng
     /\ IF r.ld.pc = "done"
        THEN /\ ui' = UiIdle
             /\ IF ui.pc = "delete_person"
                THEN /\ event' = [op |-> "delete_person", name |-> ui.name, success |-> TRUE]
                     /\ deleted' = deleted \cup {ui.name}
                ELSE /\ event' = [op |-> "clear_all"]
                     /\ UNCHANGED deleted
        ELSE /\ ui' = [ui EXCEPT !.ld = r.ld]
             /\ event' = [op |-> "other"]
             /\ UNCHANGED deleted
  /\ UNCHANGED <<strategy, db, camera, camera_active, running, session, widgets, clock,
                 thr, session_base>>

\* ------------------------------------------------------ a camera_loop thread
\* the top of an iteration: the loop test, read_frame, the test of
\* registration_mode and, in a session, the tests before register_face; out
\* of a session, the test recognize_faces begins with
BeginIteration(t) ==
  /\ thr[t].pc = "loop" /\ LoopCondition
  /\ \E frame \in FramesInThreads :
       LET read == camera_read_frame(camera, TRUE, frame)
           face_locations == detect_faces(read.frame)
           empty_cache == IF strategy = "A" THEN Len(eng.known_encodings) = 0
                          ELSE ~eng.trained
       IN
       /\ IF read.success /\ registration_mode
             /\ Len(face_locations) = 1
             /\ DebounceElapsed(clock, last_capture_time)
             /\ BelowTarget(registration_count)
          THEN \* register_face(frame, self.registration_name) is called
               /\ thr' = [u \in Threads |->
                            IF u = t
                            THEN [thr[t] EXCEPT !.pc = "add_person", !.frame = read.frame,
                                                !.now = clock, !.name = registration_name]
                            ELSE [thr[u] EXCEPT !.banned = @ \ {registration_name}]]
               /\ deleted' = deleted \ {registration_name}
          ELSE IF read.success /\ ~registration_mode /\ ~empty_cache
                  /\ Len(face_locations) > 0
               THEN \* recognize_faces enters its loop over the faces
                    /\ thr' = [thr EXCEPT ![t].pc = "predict", ![t].frame = read.frame,
                                          ![t].i = 1, ![t].banned = deleted]
                    /\ UNCHANGED deleted
               ELSE UNCHANGED <<thr, deleted>>
  /\ event' = [op |-> "other"]
  /\ UNCHANGED <<strategy, gallery, camera, camera_active, running, session, widgets,
                 clock, ui, session_base>>

\* register_face: person_id = db_manager.add_person(name)
AddPerson(t) ==
  /\ thr[t].pc = "add_person"
  /\ HasRoom(db, thr[t].name)
  /\ LET added == db_add_person(db, thr[t].name) IN
     /\ db' = added.db
     /\ thr' = [thr EXCEPT ![t].pc = "add_face_encoding", ![t].person_id = added.id]
  /\ event' = [op |-> "other"]
  /\ UNCHANGED <<strategy, eng, camera, camera_active, running, session, widgets, clock,
                 ui, session_base, deleted>>

\* register_face: db_manager.add_face_encoding(person_id, encoding)
AddFaceEncoding(t) ==
  /\ thr[t].pc = "add_face_encoding"
  /\ Len(db.face_encodings) < MaxRecords
  /\ db' = db_add_face_encoding(db, thr[t].person_id, thr[t].frame[1])
  /\ thr' = [thr EXCEPT ![t].pc = "load_known_faces", ![t].ld = StartLoad]
  /\ event' = [op |-> "other"]
  /\ UNCHANGED <<strategy, eng, camera, camera_active, running, session, widgets, clock,
                 ui, session_base, deleted>>

\* register_face: one step of self.load_known_faces()
RegisterLoadStep(t) ==
  /\ thr[t].pc = "load_known_faces"
  /\ LET r == LoadStep(strategy, thr[t].ld, eng, db) IN
     /\ eng' = r.eng
     /\ thr' = [thr EXCEPT ![t].ld = r.ld,
                           ![t].pc = IF r.ld.pc = "done" THEN "registered" ELSE @]
  /\ event' = [op |-> "other"]
  /\ UNCHANGED <<strategy, db, camera, camera_active, running, session, widgets, clock,
                 ui, session_base, deleted>>

\* register_face has returned True: the count, the timestamp, the completion
Registered(t) ==
  /\ thr[t].pc = "registered"
  /\ registration_count' = registration_count + 1
  /\ last_capture_time' = thr[t].now
  /\ IF TargetReached(registration_count + 1)
     THEN /\ registration_mode' = FALSE
          /\ after_queue' = after_queue \o CompletionCallbacks
     ELSE UNCHANGED <<registration_mode, after_queue>>
  /\ thr' = [thr EXCEPT ![t] = [NewThread EXCEPT !.pc = "loop"]]
  /\ event' = [op |-> "registration_frame", faces |-> 1, captured |-> TRUE]
  /\ UNCHANGED <<strategy, gallery, camera, camera_active, running, registration_name,
                 register_btn, name_entry, clock, ui, session_base, deleted>>

\* recognize_faces, face i: what the model part of the cache says.  Engine A:
\* compare_faces and face_distance over known_encodings, argmin.  Engine B:
\* recognizer.predict.
Predict(t) ==
  /\ thr[t].pc = "predict"
  /\ LET face == thr[t].frame[thr[t].i]
         face_distances == [k \in 1..Len(eng.known_encodings) |->
                              face_distance(eng.known_encodings[k], face)]
         p == predict(eng.recognizer, face)
     IN thr' = [thr EXCEPT
                  ![t].pc = "name",
                  ![t].best = IF strategy = "B" THEN p.label
                              ELSE IF Len(face_distances) = 0 THEN 0
                              ELSE ArgMin(face_distances),
                  ![t].hit = IF strategy = "B" THEN BelowTolerance(p.confidence, eng.tolerance)
                             ELSE /\ Len(face_distances) > 0
                                  /\ WithinTolerance(face_distances[ArgMin(face_distances)],
                                                     eng.tolerance)]
  /\ event' = [op |-> "other"]
  /\ UNCHANGED <<strategy, gallery, camera, camera_active, running, session, widgets,
                 clock, ui, session_base, deleted>>

\* recognize_faces, face i: the name for the prediction.  Engine A indexes
\* known_names (an IndexError ends the thread), engine B looks the label up in
\* label_to_name.  After the last face recognize_faces returns.
Name(t) ==
  /\ thr[t].pc = "name"
  /\ LET best == thr[t].best
         raises == strategy = "A" /\ thr[t].hit /\ best > Len(eng.known_names)
         name == IF strategy = "A"
                 THEN IF thr[t].hit THEN eng.known_names[best] ELSE Unknown
                 ELSE IF thr[t].hit /\ best \in DOMAIN eng.label_to_name
                      THEN eng.label_to_name[best] ELSE Unknown
         results == Append(thr[t].results, name)
     IN IF raises
        THEN /\ thr' = [thr EXCEPT ![t] = [NewThread EXCEPT !.pc = "raised"]]
             /\ event' = [op |-> "other"]
        ELSE IF thr[t].i = Len(thr[t].frame)
             THEN /\ thr' = [thr EXCEPT ![t] = [NewThread EXCEPT !.pc = "loop"]]
                  /\ event' = [op |-> "recognize_faces", names |-> Range(results)]
             ELSE /\ thr' = [thr EXCEPT ![t].pc = "predict", ![t].i = @ + 1,
                                        ![t].results = results]
                  /\ event' = [op |-> "other"]
  /\ UNCHANGED <<strategy, gallery, camera, camera_active, running, session, widgets,
                 clock, ui, session_base, deleted>>

\* no frame loop is left over from an earlier start of the camera
NoLoopLeft == \A t \in Threads : thr[t].pc \in {"unborn", "exited", "raised"}

\* the handlers that do not call into the engine run to their end; the calls
\* into the engine go step by step.  The camera is started again only once
\* the loop of the previous start has ended: one frame loop at a time.
NextThreads ==
  \/ NoLoopLeft /\ toggle_camera_start(TRUE)
  \/ ToggleCameraStop
  \/ \E text \in TypedInThreads : type_name(text)
  \/ start_registration
  \/ RunAfter
  \/ DeleteBegin
  \/ ClearBegin
  \/ UiLoadStep
  \/ \E t \in Threads : BeginIteration(t)
  \/ \E t \in Threads : AddPerson(t)
  \/ \E t \in Threads : AddFaceEncoding(t)
  \/ \E t \in Threads : RegisterLoadStep(t)
  \/ \E t \in Threads : Registered(t)
  \/ \E t \in Threads : Predict(t)
  \/ \E t \in Threads : Name(t)
  \/ \E t \in Threads : CameraLoopExit(t)
  \/ Tick

\* what an earlier run can leave in the store: Alice, enrolled with one
\* sample by a session that was cut short
StoresLeftBehind ==
  {db_add_face_encoding(db_add_person(EmptyDb, Alice).db, 1, 1)}

\* the application is constructed over the store an earlier run left behind
InitThreads == \E store \in StoresLeftBehind : InitOver(store)

SpecThreads == InitThreads /\ [][NextThreads]_vars

\* ------------------------------------------------ two frame loops at a time
\* no camera_loop thread is inside a call into the engine
NoCallRunning ==
  \A t \in Threads : thr[t].pc \notin {"add_face_encoding", "load_known_faces",
                                       "registered", "name"}

\* The camera may be started again while the loop of the previous start is
\* still in an iteration.  A call into the engine, once begun, runs to its
\* return before anything else happens; the loops interleave between the
\* tests at the top of an iteration and the call they lead to.
NextLoops ==
  \/ NoCallRunning /\ toggle_camera_start(TRUE)
  \/ NoCallRunning /\ ToggleCameraStop
  \/ NoCallRunning /\ \E text \in TypedInThreads : type_name(text)
  \/ NoCallRunning /\ start_registration
  \/ NoCallRunning /\ RunAfter
  \/ NoCallRunning /\ Tick
  \/ NoCallRunning /\ \E t \in Threads : BeginIteration(t)
  \/ NoCallRunning /\ \E t \in Threads : AddPerson(t)
  \/ NoCallRunning /\ \E t \in Threads : Predict(t)
  \/ NoCallRunning /\ \E t \in Threads : CameraLoopExit(t)
  \/ \E t \in Threads : AddFaceEncoding(t)
  \/ \E t \in Threads : RegisterLoadStep(t)
  \/ \E t \in Threads : Registered(t)
  \/ \E t \in Threads : Name(t)

SpecLoops == Init /\ [][NextLoops]_vars

\* ================================================ the engine, called directly
\* The engine classes and the store are usable without the application: a
\* caller constructs a DatabaseManager and a FaceRecognitionEngine with the
\* tolerance it wants and calls their methods one at a time.  The
\* application's own fields stay as constructed.

\* the tolerances a caller constructs the engine with: the one the
\* application uses, one equal to a distance (a score) that occurs, and one
\* beyond every distance (score) for which the confidence is positive
EngineTolerances(s) ==
  IF s = "A" THEN {ToleranceA, DistUnit, 2 * DistUnit}
  ELSE {ToleranceB, ScoreUnit, 2 * ScoreUnit + 1}

\* the faces shown to recognize_faces: those that can be enrolled and one
\* farther from them
ProbePayloads == Payloads \cup {p + 1 : p \in Payloads}
ProbeFrames == SeqsUpTo(ProbePayloads, MaxFaces)

InitEngine ==
  /\ strategy \in Strategies
  /\ db = EmptyDb
  /\ eng \in {load_known_faces(strategy, NewEngine(tolerance), EmptyDb).eng :
                tolerance \in EngineTolerances(strategy)}
  /\ Constructed

\* what a call on the engine leaves alone
EngineOnly ==
  UNCHANGED <<strategy, camera, camera_active, running, session, widgets, clock, thr, ui,
              session_base, deleted>>

\* face_engine.register_face(frame, name)
call_register_face ==
  /\ \E frame \in Frames, name \in Names :
       LET r == register_face(strategy, eng, db, frame, name) IN
       /\ Len(frame) = 1 => HasRoom(db, name) /\ Len(db.face_encodings) < MaxEnrolled
       /\ eng' = r.eng
       /\ db' = r.db
       /\ event' = [op |-> "register_face", frame |-> frame, name |-> name,
                    success |-> r.success, msg |-> r.msg]
  /\ EngineOnly

\* face_engine.recognize_faces(frame)
call_recognize_faces ==
  /\ \E frame \in ProbeFrames :
       event' = [op |-> "recognize_faces", frame |-> frame,
                 results |-> recognize_faces(strategy, eng, frame)]
  /\ UNCHANGED gallery
  /\ EngineOnly

\* face_engine.delete_person(name)
call_delete_person ==
  /\ \E name \in Names :
       LET r == engine_delete_person(strategy, eng, db, name) IN
       /\ eng' = r.eng
       /\ db' = r.db
       /\ event' = [op |-> "delete_person", name |-> name, success |-> r.success]
  /\ EngineOnly

\* face_engine.clear_all_faces()
call_clear_all_faces ==
  /\ LET r == clear_all_faces(strategy, eng, db) IN
     /\ eng' = r.eng
     /\ db' = r.db
  /\ event' = [op |-> "clear_all"]
  /\ EngineOnly

\* db_manager.add_person(name)
call_add_person ==
  /\ \E name \in Names :
       LET added == db_add_person(db, name) IN
       /\ db_person_exists(db, name) \/ db.seq < MaxPersonId
       /\ db' = added.db
       /\ event' = [op |-> "add_person", name |-> name, id |-> added.id]
  /\ UNCHANGED eng
  /\ EngineOnly

NextEngine ==
  \/ call_register_face
  \/ call_recognize_faces
  \/ call_delete_person
  \/ call_clear_all_faces
  \/ call_add_person

SpecEngine == InitEngine /\ [][NextEngine]_vars

\* ========================================== the frame source, called directly
\* CameraHandler is a class of its own: besides toggle_camera, on_closing and
\* camera_loop, a caller may call start, stop and read_frame on it in any
\* order, also on a camera that is active already or was never started.

\* camera.start()
call_camera_start ==
  /\ \E opened \in BOOLEAN :
       LET started == camera_start(camera, opened) IN
       /\ camera' = started.camera
       /\ event' = [op |-> "camera_start", opened |-> opened, ok |-> started.ok]
  /\ UNCHANGED <<strategy, gallery, camera_active, running, session, widgets, clock, thr,
                 ui, session_base, deleted>>

\* camera.stop()
call_camera_stop ==
  /\ camera' = camera_stop(camera)
  /\ event' = [op |-> "camera_stop"]
  /\ UNCHANGED <<strategy, gallery, camera_active, running, session, widgets, clock, thr,
                 ui, session_base, deleted>>

\* camera.read_frame()
call_camera_read_frame ==
  /\ \E ret \in BOOLEAN, frame \in Frames :
       LET read == camera_read_frame(camera, ret, frame) IN
       /\ ret \/ frame = <<>>
       /\ event' = [op |-> "read_frame", success |-> read.success, frame |-> read.frame]
  /\ UNCHANGED <<strategy, gallery, camera, camera_active, running, session, widgets,
                 clock, thr, ui, session_base, deleted>>

NextCamera ==
  \/ ToggleCameraStart
  \/ ToggleCameraStop
  \/ on_closing
  \/ \E t \in Threads : CameraLoopIteration(t)
  \/ \E t \in Threads : CameraLoopExit(t)
  \/ call_camera_start
  \/ call_camera_stop
  \/ call_camera_read_frame

SpecCamera == Init /\ [][NextCamera]_vars

\* ================================================================= claims
Capturing == registration_mode
Idle == ~registration_mode

Statistics == get_statistics(strategy, eng, db)
RecordsOf(d, name) == Len(db_get_person_encodings(d, name))

\* C1: stopping the frame loop (toggle_camera's stop branch, on_closing)
\* forces the session to Idle: right after a step that takes camera_active
\* from true to false, registration_mode is false.
C1_StopForcesIdle ==
  [][(camera_active /\ ~camera_active') => ~registration_mode']_vars

\* C2: a begin (start_registration) issued while a session is Capturing is
\* rejected and leaves the session's identity, captured count and last-capture
\* timestamp unchanged.
C2_BeginWhileCapturingRejected ==
  [][(registration_mode /\ event'.op = "start_registration")
       => /\ ~event'.accepted
          /\ UNCHANGED <<registration_name, registration_count, last_capture_time>>]_vars

\* a step in which recognize_faces, running in camera_loop thread t, reads
\* the gallery cache: its opening test, a prediction, a name lookup
ReadsCache(t) ==
  \/ thr[t].pc = "loop" /\ ~registration_mode /\ thr'[t].pc = "predict"
  \/ thr[t].pc \in {"predict", "name"} /\ thr'[t] # thr[t]

\* C3: a recognize_faces running in a camera_loop thread never reads the
\* cache while a reload started from the UI thread (delete, clear) has
\* rewritten a part of it and not yet the rest.
C3_ReloadSwapsAtomically ==
  [][\A t \in Threads : ReadsCache(t) => ~LoadMidway(ui.ld)]_vars

\* thread t is inside register_face, past its add_person
InRegisterFace(t) == thr[t].pc \in {"add_face_encoding", "load_known_faces"}

\* C4: while a register_face is between its add_person and its return, the
\* UI thread takes no step of a delete or a clear; and when register_face
\* returns True, the person its record was stored under exists.
C4_OneWriterAtATime ==
  [][\A t \in Threads :
       /\ InRegisterFace(t) => ui' = ui
       /\ (thr[t].pc = "load_known_faces" /\ thr'[t].pc = "registered")
            => thr[t].person_id \in PersonIds(db')]_vars

\* C9: two successful captures of a session are at least capture_delay
\* apart: when register_face returns True for a frame taken at time now, the
\* last successful capture the session has recorded, if any, was taken at
\* least capture_delay earlier or later.
C9_Debounce ==
  [][\A t \in Threads :
       (thr[t].pc = "registered" /\ thr'[t].pc = "loop")
         => Abs(thr[t].now - last_capture_time) >= CaptureDelay]_vars

\* C10: a recognize_faces that was called after delete_person(name) had
\* returned does not return name, unless register_face has been called for
\* name in between.
C10_DeletedNeverRecognized ==
  [][\A t \in Threads :
       (thr[t].pc = "name" /\ event'.op = "recognize_faces")
         => event'.names \cap thr[t].banned = {}]_vars

\* C5: after delete_person(name) has returned true the store holds no record
\* that belonged to that person, and in every reachable state every stored
\* record references a person row that exists.
C5_DeleteRemovesRecords ==
  /\ [](\A i \in 1..Len(db.face_encodings) :
          db.face_encodings[i].person_id \in PersonIds(db))
  /\ [][(event'.op = "delete_person" /\ event'.success)
          => \A i \in 1..Len(db'.face_encodings) :
               db'.face_encodings[i].person_id # PersonRow(db, event'.name).id]_vars

\* C6: for each engine, a successful registerOne on a frame with exactly one
\* face raises total_encodings by exactly 1 and total_persons by 1 for a new
\* identity and by 0 for an existing one.
C6_RegisterRaisesCounts ==
  [][(event'.op = "registration_frame" /\ event'.captured)
       => /\ get_statistics(strategy, eng', db').total_encodings
               = Statistics.total_encodings + 1
          /\ get_statistics(strategy, eng', db').total_persons
               = Statistics.total_persons
                   + (IF db_person_exists(db, registration_name) THEN 0 ELSE 1)]_vars

\* C7: for each engine, right after clearAll, statistics reports
\* personCount = 0 and recordCount = 0.
C7_ClearAllZeroStatistics ==
  event.op = "clear_all"
    => Statistics.total_persons = 0 /\ Statistics.total_encodings = 0

\* C8: a session begun from Idle and fed single-face frames, each at least the
\* debounce interval after the previous capture, captures every one of them,
\* has stored exactly registration_count new records under its identity, and
\* is Idle again exactly when it has stored TargetSamples of them.
C8_SessionStoresTargetSamples ==
  /\ [](session_base # <<>>
          => /\ RecordsOf(db, registration_name) = session_base[1] + registration_count
             /\ registration_count <= TargetSamples
             /\ Idle <=> registration_count = TargetSamples)
  /\ [][(/\ session_base # <<>>
         /\ event'.op = "registration_frame"
         /\ event'.faces = 1
         /\ clock - last_capture_time >= CaptureDelay)
          => /\ event'.captured
             /\ registration_count' = registration_count + 1]_vars

\* a session begun from Idle has just stored its last sample and is Idle again
C8_Witness ==
  /\ session_base # <<>>
  /\ event.op = "registration_frame" /\ event.captured
  /\ registration_count = TargetSamples
  /\ RecordsOf(db, registration_name) = session_base[1] + TargetSamples
  /\ Idle

\* C11: register_face on a frame with no face returns False with "No face
\* detected", on a frame with two or more faces it returns False with
\* "Multiple faces detected ..."; it returns (it does not raise), and the
\* store and the cache are as they were before the call.
C11_WrongFaceCountFails ==
  [][(event'.op = "register_face" /\ Len(event'.frame) # 1)
       => /\ ~event'.success
          /\ event'.msg = IF Len(event'.frame) = 0 THEN NoFaceDetected
                          ELSE MultipleFacesDetected
          /\ UNCHANGED <<db, eng>>]_vars

\* register_face has refused a frame with two faces over a store that holds a
\* record
C11_Witness ==
  /\ event.op = "register_face"
  /\ Len(event.frame) = 2
  /\ ~event.success /\ event.msg = MultipleFacesDetected
  /\ db.face_encodings # <<>>

\* the characters the warning of start_registration names: letters, numbers,
\* hyphens and underscores
AllowedChars == AlnumChars \cup {"_", "-"}
HasOtherChar(name) == \E i \in 1..Len(name) : name[i] \notin AllowedChars

\* C12: start_registration with a name (the entry's text, stripped) that is
\* empty or holds a character other than a letter, a digit, a hyphen or an
\* underscore is refused: the fields of the session are unchanged, so that a
\* session that was Idle, the state begin is issued in, is still Idle.
\* When start_registration goes through, the session is Capturing with
\* registration_count = 0 and last_capture_time = 0; and the first frame with
\* one face that comes after is captured, whatever the clock says.
C12_BeginValidates ==
  /\ [][event'.op = "start_registration"
          => LET name == Strip(name_entry.text) IN
             /\ (name = <<>> \/ HasOtherChar(name))
                  => /\ ~event'.accepted
                     /\ UNCHANGED session
                     /\ Idle => Idle'
             /\ event'.accepted
                  => /\ Capturing'
                     /\ registration_name' = name
                     /\ registration_count' = 0
                     /\ last_capture_time' = 0]_vars
  /\ [][(/\ Capturing /\ registration_count = 0 /\ last_capture_time = 0
         /\ event'.op = "registration_frame" /\ event'.faces = 1)
          => event'.captured /\ registration_count' = 1]_vars

\* start_registration has just refused a name with a character it does not
\* allow, after an earlier session had captured a sample
C12_Witness ==
  /\ event.op = "start_registration" /\ ~event.accepted
  /\ HasOtherChar(Strip(name_entry.text))
  /\ Idle
  /\ last_capture_time > 0

\* the distances from a probe to the records of the cache of engine A, the
\* least of them, and the names of the records at that distance
Distances(e, probe) ==
  {face_distance(e.known_encodings[k], probe) : k \in 1..Len(e.known_encodings)}
MinDistance(e, probe) ==
  CHOOSE d \in Distances(e, probe) : \A other \in Distances(e, probe) : d <= other
Nearest(e, probe) ==
  {e.known_names[k] : k \in {j \in 1..Len(e.known_encodings) :
                               face_distance(e.known_encodings[j], probe) = MinDistance(e, probe)}}

\* C13: recognize_faces of engine A over a cache that is not empty gives each
\* face the name of a record at the least distance from it if that distance
\* is <= tolerance, and "Unknown" if it is not.
C13_AcceptRuleA ==
  (strategy = "A" /\ event.op = "recognize_faces" /\ eng.known_encodings # <<>>)
    => /\ Len(event.results) = Len(event.frame)
       /\ \A i \in 1..Len(event.frame) :
            IF MinDistance(eng, event.frame[i]) <= eng.tolerance
            THEN event.results[i].name \in Nearest(eng, event.frame[i])
            ELSE event.results[i].name = Unknown

\* engine A, holding records of two names, has named a face whose least
\* distance is the tolerance itself
C13_Witness ==
  /\ strategy = "A" /\ event.op = "recognize_faces"
  /\ Cardinality(Range(eng.known_names)) = 2
  /\ \E i \in 1..Len(event.frame) :
       /\ MinDistance(eng, event.frame[i]) = eng.tolerance
       /\ event.results[i].name \in Nearest(eng, event.frame[i])

\* what the confidence of a face is computed from: the least distance to the
\* cache (engine A, in tenths), the score of the prediction (engine B)
Measure(probe) ==
  IF strategy = "A" THEN MinDistance(eng, probe)
  ELSE predict(eng.recognizer, probe).confidence
\* the measure at which the unclamped confidence reaches 0
FullScale == IF strategy = "A" THEN 10 ELSE 100
Accepted(result) == result.name # Unknown

\* C14: every confidence recognize_faces returns is within 0..100, also for a
\* face accepted at a distance above 1.0 or a score above 100; and of two
\* accepted faces the one with the smaller distance (score) has a confidence
\* at least as high, and a higher one unless both are 0.
C14_ConfidenceBounded ==
  event.op = "recognize_faces"
    => /\ \A i \in 1..Len(event.results) :
            event.results[i].confidence >= 0 /\ event.results[i].confidence <= 100
       /\ \A i, j \in 1..Len(event.results) :
            (/\ Accepted(event.results[i]) /\ Accepted(event.results[j])
             /\ Measure(event.frame[i]) < Measure(event.frame[j]))
              => /\ event.results[i].confidence >= event.results[j].confidence
                 /\ event.results[j].confidence > 0
                      => event.results[i].confidence > event.results[j].confidence

\* one frame with two accepted faces: one at distance (score) 0 with
\* confidence 100, one beyond full scale with confidence 0
C14_Witness ==
  /\ event.op = "recognize_faces"
  /\ \E i, j \in 1..Len(event.results) :
       /\ Accepted(event.results[i]) /\ Accepted(event.results[j])
       /\ Measure(event.frame[i]) = 0 /\ event.results[i].confidence = 100
       /\ Measure(event.frame[j]) > FullScale /\ event.results[j].confidence = 0

\* C15: recognize_faces of engine B gives a face the name label_to_name[label]
\* of the predicted label if the predicted score is below the tolerance and
\* the label is a key of label_to_name; otherwise it gives "Unknown" with
\* confidence 0.
C15_AcceptRuleB ==
  (strategy = "B" /\ event.op = "recognize_faces")
    => \A i \in 1..Len(event.results) :
         LET p == predict(eng.recognizer, event.frame[i]) IN
         IF p.confidence < eng.tolerance /\ p.label \in DOMAIN eng.label_to_name
         THEN event.results[i].name = eng.label_to_name[p.label]
         ELSE event.results[i].name = Unknown /\ event.results[i].confidence = 0

\* engine B has named one face of a frame and refused another whose score is
\* the tolerance itself
C15_Witness ==
  /\ strategy = "B" /\ event.op = "recognize_faces"
  /\ \E i, j \in 1..Len(event.results) :
       /\ Accepted(event.results[i])
       /\ predict(eng.recognizer, event.frame[j]).confidence = eng.tolerance
       /\ event.results[j].name = Unknown /\ event.results[j].confidence = 0

\* C16: delete_person(name) returns True exactly if the store held a person of
\* that name when it was called.  When it returns False the store and the
\* cache are as they were: nothing was removed and load_known_faces did not
\* run.  When it returns True the cache is what load_known_faces makes of it
\* over the store after the removal.
C16_DeleteReturnsWhetherRemoved ==
  [][event'.op = "delete_person"
       => /\ event'.success <=> db_person_exists(db, event'.name)
          /\ ~event'.success => UNCHANGED <<db, eng>>
          /\ event'.success
               => /\ ~db_person_exists(db', event'.name)
                  /\ eng' = load_known_faces(strategy, eng, db').eng]_vars

\* delete_person has returned True for one of two persons, and the cache
\* still answers for the other
C16_Witness ==
  /\ event.op = "delete_person" /\ event.success
  /\ ~db_person_exists(db, event.name)
  /\ db.persons # {}
  /\ IF strategy = "A" THEN eng.known_encodings # <<>> ELSE eng.trained

\* C17: add_person with a name the store already holds returns the id of the
\* person of that name and leaves the persons table as it is, so the person
\* count does not change; it returns (it does not raise).  The same holds for
\* the add_person inside a register_face for a registered name, whose record
\* is stored under the existing id.
C17_AddPersonIdempotent ==
  /\ [][(event'.op = "add_person" /\ db_person_exists(db, event'.name))
          => /\ event'.id = PersonRow(db, event'.name).id
             /\ db'.persons = db.persons
             /\ db_get_person_count(db') = db_get_person_count(db)]_vars
  /\ [][(/\ event'.op = "register_face" /\ event'.success
         /\ db_person_exists(db, event'.name))
          => /\ db'.persons = db.persons
             /\ db'.face_encodings[Len(db'.face_encodings)].person_id
                  = PersonRow(db, event'.name).id]_vars

\* add_person has returned the id of a person who was not the last to be
\* added: a repeated call
C17_Witness ==
  /\ event.op = "add_person"
  /\ event.id \in PersonIds(db)
  /\ event.id < db.seq
  /\ db_get_person_count(db) = 2

\* the test recognize_faces begins with: nothing to compare a face with
EmptyCache == IF strategy = "A" THEN eng.known_encodings = <<>> ELSE ~eng.trained

\* C18: recognize_faces returns the empty list when the cache is empty
\* (engine A) or the recognizer is not trained (engine B), and when the
\* detector finds no face in the frame; otherwise it returns one result for
\* each face the detector found, in the detector's order.
C18_OneResultPerFace ==
  event.op = "recognize_faces"
    => IF EmptyCache \/ Len(detect_faces(event.frame)) = 0
       THEN event.results = <<>>
       ELSE /\ Len(event.results) = Len(detect_faces(event.frame))
            /\ \A i \in 1..Len(event.results) :
                 event.results[i].location = detect_faces(event.frame)[i]

\* recognize_faces has returned two results, the first for a face it names
\* and the second for one it does not
C18_Witness ==
  /\ event.op = "recognize_faces"
  /\ Len(event.results) = 2
  /\ Accepted(event.results[1]) /\ ~Accepted(event.results[2])
  /\ event.results[1].location = 1 /\ event.results[2].location = 2

\* C19: in every reachable state 0 <= registration_count <= target_samples,
\* and a session has stored no more than target_samples records under its
\* name since it began.
C19_CountWithinTarget ==
  /\ registration_count >= 0
  /\ registration_count <= TargetSamples
  /\ session_base # <<>>
       => RecordsOf(db, registration_name) - session_base[1] <= TargetSamples

\* thread t has been started and has not returned from camera_loop
Running(t) == thr[t].pc \notin {"unborn", "exited", "raised"}
\* thread t is past the tests at the top of an iteration, at work on a frame
InIteration(t) == Running(t) /\ thr[t].pc # "loop"

\* C20: whatever the sequence of camera stops and starts, no two camera_loop
\* threads are at work on a frame at the same time.
C20_OneFrameLoop ==
  \A t, u \in Threads : t # u => ~(InIteration(t) /\ InIteration(u))

\* a step in which register_face is entered: in one piece by an iteration of
\* the frame loop, or, statement-wise, by thread t going into add_person
InvokesRegister ==
  \/ /\ \A t \in Threads : thr[t].pc \in {"unborn", "loop", "exited", "raised"}
     /\ event'.op = "registration_frame" /\ event'.captured
  \/ \E t \in Threads : thr[t].pc = "add_person" /\ thr'[t].pc = "add_face_encoding"

\* C21: the capture that takes registration_count to target_samples takes the
\* session from Capturing to Idle and schedules the completion callbacks; the
\* callbacks are scheduled by no other step, so once for a session; and
\* register_face is entered only while the session is Capturing, so not after
\* the completion.
C21_CompletionOnce ==
  /\ [][(registration_count < TargetSamples /\ registration_count' >= TargetSamples)
          => /\ Capturing /\ Idle'
             /\ after_queue' = after_queue \o CompletionCallbacks]_vars
  /\ [][Len(after_queue') > Len(after_queue)
          => /\ Capturing /\ Idle'
             /\ registration_count' = TargetSamples]_vars
  /\ [][InvokesRegister => Capturing]_vars

\* C22: while the session is Capturing, a frame in which the detector finds
\* no face or more than one, and a frame with one face for which
\* register_face does not return True, leave registration_count,
\* last_capture_time, the store and the cache as they were, and the session
\* Capturing under the same name.
C22_UncapturedFrameChangesNothing ==
  [][(/\ Capturing
      /\ event'.op = "registration_frame"
      /\ event'.faces # 1 \/ (event'.faces = 1 /\ ~event'.captured))
       => /\ UNCHANGED <<registration_count, last_capture_time, db, eng>>
          /\ Capturing'
          /\ UNCHANGED registration_name]_vars

\* a session that has captured a sample has just been shown a frame with two
\* faces
C22_Witness ==
  /\ Capturing
  /\ event.op = "registration_frame" /\ event.faces = 2 /\ ~event.captured
  /\ registration_count = 1
  /\ last_capture_time > 0

\* thread t was running when the camera was stopped: a later thread has been
\* started, which takes a stop after the start that made t
StoppedUnder(t) == \E u \in Threads : u > t /\ thr[u].pc # "unborn"

\* C23: a camera_loop thread that was running when the camera was stopped
\* takes up no new frame: from the top of its loop it goes nowhere but out.
\* (The claim adds that the thread does exit in the end.)
C23_StoppedLoopTakesNoFrame ==
  [][\A t \in Threads :
       (StoppedUnder(t) /\ thr[t].pc = "loop")
         => thr'[t].pc \in {"loop", "exited"}]_vars

\* C24: an iteration of camera_loop whose read_frame returns (False, None)
\* ends there: the thread is back at the test of its loop, neither
\* process_registration_frame nor process_recognition_frame has run, the
\* session, the store and the cache are as they were, and the camera is still
\* on, so the next iteration reads again.
C24_FailedReadIsTransient ==
  [][(event'.op = "read_frame" /\ ~event'.success)
       => /\ event'.frame = <<>>
          /\ \E t \in Threads : thr[t].pc = "loop" /\ thr'[t].pc = "loop"
          /\ \A t \in Threads : thr[t].pc = "loop" => thr'[t].pc = "loop"
          /\ UNCHANGED <<session, gallery, after_queue>>
          /\ LoopCondition /\ LoopCondition'
          /\ camera' = camera /\ camera.is_active]_vars

\* a read has just failed in the middle of a session that has one sample
C24_Witness ==
  /\ event.op = "read_frame" /\ ~event.success
  /\ Capturing /\ registration_count = 1
  /\ LoopCondition
  /\ \E t \in Threads : thr[t].pc = "loop"

\* no call into the engine is in progress, in the UI thread or in a frame loop
Quiescent ==
  /\ ui.pc = "idle"
  /\ \A t \in Threads : thr[t].pc \in {"unborn", "loop", "exited", "raised"}

\* the cache of engine A as (name, encoding) pairs
CachePairs(e) ==
  [i \in 1..Len(e.known_names) |-> <<e.known_names[i], e.known_encodings[i]>>]

\* C25: engine A, no call in progress: known_names and known_encodings have
\* the same length, together they are the (name, encoding) rows
\* get_all_encodings returns now, in its order, and load_known_faces would
\* return their number.
C25_CacheCoherentA ==
  (strategy = "A" /\ Quiescent)
    => /\ Len(eng.known_names) = Len(eng.known_encodings)
       /\ CachePairs(eng) = db_get_all_encodings(db)
       /\ A_load_known_faces(eng, db).ret = Len(eng.known_encodings)

\* caches engine A can hold, besides the one it holds: every sequence of
\* encodings up to the bound, under every tolerance
CachesA ==
  {[NewEngine(tolerance) EXCEPT !.known_encodings = encodings,
                                !.known_names = [i \in 1..Len(encodings) |-> Alice]] :
     tolerance \in EngineTolerances("A"),
     encodings \in SeqsUpTo(ProbePayloads, MaxEnrolled) \ {<<>>}}

\* the two stages of engine A's rule disagree over cache e for a face: the
\* record argmin picks fails compare_faces while another record passes it
TwoStagesDisagree(e, face_encoding) ==
  LET face_distances == [i \in 1..Len(e.known_encodings) |->
                           face_distance(e.known_encodings[i], face_encoding)]
      matches == [i \in 1..Len(e.known_encodings) |->
                    WithinTolerance(face_distances[i], e.tolerance)]
  IN /\ ~matches[ArgMin(face_distances)]
     /\ \E k \in 1..Len(matches) : matches[k]
     /\ A_match(e, face_encoding).name = Unknown

\* C26 as stated: there are a gallery and a probe for which the record at the
\* least distance fails the tolerance test while another record passes it, so
\* that recognize_faces answers "Unknown" although a record within tolerance
\* exists.  Looked for once the engine holds a gallery of several records,
\* among that gallery and every other one.
C26_TwoStagesCanDisagree ==
  (strategy = "A" /\ Len(eng.known_encodings) > 1)
    => \E e \in CachesA \cup {eng}, face_encoding \in ProbePayloads :
         TwoStagesDisagree(e, face_encoding)

\* C26, amended: the two stages of engine A never disagree.  compare_faces
\* tests the very distances argmin is taken over, so recognize_faces over a
\* cache that is not empty answers "Unknown" for a face exactly when no
\* record of the cache is within the tolerance of it.
C26_TwoStagesAgree ==
  (strategy = "A" /\ event.op = "recognize_faces" /\ eng.known_encodings # <<>>)
    => \A i \in 1..Len(event.frame) :
         /\ ~TwoStagesDisagree(eng, event.frame[i])
         /\ event.results[i].name = Unknown
              <=> \A k \in 1..Len(eng.known_encodings) :
                    face_distance(eng.known_encodings[k], event.frame[i]) > eng.tolerance

\* engine A has named a face over a cache with one record within the
\* tolerance of it and one record beyond
C26_Witness ==
  /\ strategy = "A" /\ event.op = "recognize_faces"
  /\ eng.known_encodings # <<>>
  /\ \E i \in 1..Len(event.frame) :
       /\ Accepted(event.results[i])
       /\ \E k \in 1..Len(eng.known_encodings) :
            face_distance(eng.known_encodings[k], event.frame[i]) <= eng.tolerance
       /\ \E k \in 1..Len(eng.known_encodings) :
            face_distance(eng.known_encodings[k], event.frame[i]) > eng.tolerance

\* row i of face_encodings joins no person: get_all_encodings and
\* get_person_encodings do not return it
Hidden(d, i) == d.face_encodings[i].person_id \notin PersonIds(d)

\* C27: when delete_person(name) has returned True, get_person_encodings(name)
\* returns nothing and get_all_encodings returns what it did less the rows of
\* name; and a row the two queries do not return is never returned by them
\* again, whatever is registered afterwards.  So after a delete they return
\* for name only rows stored after it.
C27_DeletedRecordsStayAway ==
  /\ [][(event'.op = "delete_person" /\ event'.success)
          => /\ db_get_person_encodings(db', event'.name) = <<>>
             /\ Len(db_get_all_encodings(db'))
                  = Len(db_get_all_encodings(db)) - RecordsOf(db, event'.name)
             /\ \A i \in 1..Len(db_get_all_encodings(db')) :
                  db_get_all_encodings(db')[i][1] # event'.name]_vars
  /\ [][\A i \in 1..Len(db.face_encodings) :
          (/\ Hidden(db, i)
           /\ i <= Len(db'.face_encodings)
           /\ db'.face_encodings[i] = db.face_encodings[i])
            => Hidden(db', i)]_vars

\* a face has been registered after the deletion of a person whose row is
\* still in the table: the queries return the new row and not the old one
C27_Witness ==
  /\ event.op = "register_face" /\ event.success
  /\ Len(db.face_encodings) = 2
  /\ Hidden(db, 1) /\ ~Hidden(db, 2)
  /\ Len(db_get_all_encodings(db)) = 1
  /\ RecordsOf(db, event.name) = 1

\* the names of the persons table
PersonNames(d) == {p.name : p \in d.persons}

\* C28: engine B, no call in progress: trained is true exactly if
\* get_all_encodings returns a row (the store holds a record of a person who
\* exists); and when trained is true, label_to_name maps its labels one to
\* one onto the names of the persons table, and every patch the recognizer
\* was trained with is a record of the person its label names.
C28_TrainingConsistentB ==
  (strategy = "B" /\ Quiescent)
    => /\ eng.trained <=> Len(db_get_all_encodings(db)) > 0
       /\ eng.trained
            => /\ Range(eng.label_to_name) = PersonNames(db)
               /\ Cardinality(DOMAIN eng.label_to_name) = Cardinality(PersonNames(db))
               /\ \A k \in 1..Len(eng.recognizer) :
                    /\ eng.recognizer[k][2] \in DOMAIN eng.label_to_name
                    /\ eng.recognizer[k][1] \in
                         Range(db_get_person_encodings(
                                 db, eng.label_to_name[eng.recognizer[k][2]]))
               /\ Len(eng.recognizer) = Len(db_get_all_encodings(db))

\* C29: start_registration issued while the session is Idle, with a name (the
\* entry's text, stripped) that is not empty and made only of letters, digits,
\* hyphens and underscores, starts a session, unless the name is registered
\* already, where the answer at the "Add more samples?" prompt decides.
C29_BeginAcceptsValidNames ==
  [][(event'.op = "start_registration" /\ Idle)
       => LET name == Strip(name_entry.text) IN
          (name # <<>> /\ ~HasOtherChar(name))
            => \/ event'.accepted /\ Capturing' /\ registration_name' = name
               \/ ~event'.accepted /\ db_person_exists(db, name)]_vars

\* C30: a start that finds the camera inactive and the device not opening
\* returns False, leaves is_active false and starts no camera_loop thread; a
\* start on an active camera returns True and leaves the handler, its capture
\* included, as it is, whether or not the device would open; read_frame on
\* an inactive camera (never started, start failed, stopped) returns
\* (False, None); after stop is_active is false and capture is None, released.
C30_CameraLifecycle ==
  /\ [][event'.op = "camera_start"
          => /\ event'.ok <=> (camera.is_active \/ event'.opened)
             /\ camera'.is_active <=> event'.ok
             /\ ~event'.ok => (thr' = thr /\ camera_active' = camera_active)
             /\ camera.is_active => camera' = camera]_vars
  /\ [][\A t \in Threads :
          (thr[t].pc = "unborn" /\ thr'[t].pc # "unborn")
            => (event'.op = "camera_start" /\ event'.ok)]_vars
  /\ [][(event'.op = "read_frame" /\ ~camera.is_active)
          => (~event'.success /\ event'.frame = <<>> /\ camera' = camera)]_vars
  /\ [][event'.op = "camera_stop"
          => (~camera'.is_active /\ camera'.capture = "none")]_vars

\* read_frame has just returned (False, None) on a camera whose last start
\* failed, after an earlier start had succeeded and its frame loop has ended
C30_Witness ==
  /\ event.op = "read_frame" /\ ~event.success /\ event.frame = <<>>
  /\ ~camera.is_active /\ camera.capture = "closed"
  /\ thr[1].pc = "exited"
  /\ \A t \in Threads : t > 1 => thr[t].pc = "unborn"

====
